---- MODULE Spec2Model ----
(***************************************************************************)
(* Model of horton/wfn.py: the wavefunction containers BaseWFN,            *)
(* ClosedShellWFN and OpenShellWFN, their construction, the selection      *)
(* protocol iter_expansions, density-matrix assembly and HDF5 persistence. *)
(* The orbital expansions, the one-body operators and the linalg factory   *)
(* live in horton/matrix.py; they are modelled from their described        *)
(* contract (zero-initialised dense arrays, accumulating density matrix).  *)
(***************************************************************************)
EXTENDS Integers, Sequences, FiniteSets, TLC

VARIABLES
    wfn,    \* the driver's wavefunction object (its private fields), or NoWfn
    heap,   \* the expansions created by the linalg factory, by reference
    dm,     \* the output operator of the last compute_density_matrix call
    grp,    \* the HDF5 group last written: attributes and items
    saved,  \* the wavefunction and the expansions as they were when written
    op,     \* the last call made, with its arguments
    err,    \* the exception the last call raised, or "none"
    ret,    \* what the last call returned (records yielded, nel, or an object)
    ctor,   \* the arguments of the constructor call that made wfn
    fuel    \* the calls the driver may still make: <<>> is no limit, <<n>> is n

vars == <<wfn, heap, dm, grp, saved, op, err, ret, ctor, fuel>>

(***************************************************************************)
(* Bounds of the model.                                                    *)
(***************************************************************************)
\* largest number of basis functions (and of orbitals) a driver asks for
MaxBasis == 3
\* number of different coefficient arrays the solver may write
MaxPattern == 2
\* number of calls after the construction in a run of bounded length
MaxCalls == 3

(***************************************************************************)
(* Inputs.                                                                 *)
(***************************************************************************)
\* the optional argument norb: <<>> is None, <<n>> is the value n
NorbArgs == {<<>>} \cup {<<n>> : n \in 1..MaxBasis}
NbasisArgs == 0..MaxBasis
CountArgs == (-1)..(MaxBasis + 1)
\* the four recognized selections and one that is not
Selects == {"alpha", "beta", "full", "spin", "gamma"}
\* the coefficient arrays the solver writes, by number
Patterns == 1..MaxPattern
\* what a caller's output operator holds before it is handed over
TargetFill == {7}
\* values of the attribute 'class' a writer of the file may set
ClassTags == {"ClosedShellWFN", "OpenShellWFN", "BaseWFN"}

NoWfn == [cls |-> "None"]
NoOp == [name |-> "none"]
NoCtor == [cls |-> "None"]

(***************************************************************************)
(* horton.matrix (not part of the shown sources): dense arrays.            *)
(***************************************************************************)
Matrix(n, m, v) == [p \in (1..n) \X (1..m) |-> v]

Min(a, b) == IF a < b THEN a ELSE b

\* lf.create_expansion(nbasis, nfn, do_energies): a zero-initialised expansion
CreateExpansion(nbasis, nfn, do_energies) ==
    [nbasis |-> nbasis, nfn |-> nfn, do_energies |-> do_energies,
     coeffs |-> Matrix(nbasis, nfn, 0)]

RECURSIVE OccupiedDot(_, _, _, _)
\* sum over the first k orbitals of coeffs[i,k]*coeffs[j,k]
OccupiedDot(coeffs, i, j, k) ==
    IF k <= 0 THEN 0
    ELSE coeffs[<<i, k>>] * coeffs[<<j, k>>] + OccupiedDot(coeffs, i, j, k - 1)

\* expansion.compute_density_matrix(nocc, dm, factor): dm += factor * C_occ C_occ^T
ExpansionComputeDensityMatrix(e, nocc, target, factor) ==
    [p \in DOMAIN target |->
        target[p] + factor * OccupiedDot(e.coeffs, p[1], p[2], Min(nocc, e.nfn))]

\* dm.reset()
Reset(target) == [p \in DOMAIN target |-> 0]

(***************************************************************************)
(* BaseWFN.__init__                                                        *)
(***************************************************************************)
BaseInit(nbasis, norb) ==
    [nbasis |-> nbasis, norb |-> IF norb = <<>> THEN nbasis ELSE norb[1]]

\* ClosedShellNew with the first test written nep < 0
ClosedShellNewZeroPairs(nep, h, nbasis, norb) ==
    LET b == BaseInit(nbasis, norb) IN
    IF nep < 0 \/ b.nbasis < nep
    THEN [obj |-> NoWfn, raised |-> "ElectronCountError", heap |-> h]
    ELSE [obj |-> [cls |-> "ClosedShellWFN", nbasis |-> b.nbasis, norb |-> b.norb,
                   nep |-> nep, expansion |-> Len(h) + 1],
          raised |-> "none",
          heap |-> Append(h, [nbasis |-> b.nbasis, nfn |-> b.norb, do_energies |-> TRUE,
                              coeffs |-> [p \in (1..b.nbasis) \X (1..b.norb) |-> 0]])]

(***************************************************************************)
(* ClosedShellWFN.__init__: the result of the constructor call, as the     *)
(* object (or none), the exception and the heap after the call.            *)
(***************************************************************************)
ClosedShellNew(nep, h, nbasis, norb) ==
    LET b == BaseInit(nbasis, norb) IN
    IF nep <= 0 THEN [obj |-> NoWfn, raised |-> "ElectronCountError", heap |-> h]
    ELSE IF b.nbasis < nep
    THEN [obj |-> NoWfn, raised |-> "ElectronCountError", heap |-> h]
    ELSE [obj |-> [cls |-> "ClosedShellWFN", nbasis |-> b.nbasis, norb |-> b.norb,
                   nep |-> nep, expansion |-> Len(h) + 1],
          raised |-> "none",
          heap |-> Append(h, CreateExpansion(b.nbasis, b.norb, TRUE))]

\* OpenShellNew with the basis size tested against nalpha only
OpenShellNewAlphaOnly(nalpha, nbeta, h, nbasis, norb) ==
    LET b == BaseInit(nbasis, norb)
        e == [nbasis |-> b.nbasis, nfn |-> b.norb, do_energies |-> TRUE,
              coeffs |-> [p \in (1..b.nbasis) \X (1..b.norb) |-> 0]] IN
    IF nalpha < 0 \/ nbeta < 0 \/ (nalpha = 0 /\ nbeta = 0) \/ b.nbasis < nalpha
    THEN [obj |-> NoWfn, raised |-> "ElectronCountError", heap |-> h]
    ELSE [obj |-> [cls |-> "OpenShellWFN", nbasis |-> b.nbasis, norb |-> b.norb,
                   nalpha |-> nalpha, nbeta |-> nbeta,
                   alpha_expansion |-> Len(h) + 1,
                   beta_expansion |-> Len(h) + 2],
          raised |-> "none",
          heap |-> Append(Append(h, e), e)]

(***************************************************************************)
(* OpenShellWFN.__init__                                                   *)
(***************************************************************************)
OpenShellNew(nalpha, nbeta, h, nbasis, norb) ==
    LET b == BaseInit(nbasis, norb) IN
    IF nalpha < 0 \/ nbeta < 0
    THEN [obj |-> NoWfn, raised |-> "ElectronCountError", heap |-> h]
    ELSE IF nalpha = 0 /\ nbeta = 0
    THEN [obj |-> NoWfn, raised |-> "ElectronCountError", heap |-> h]
    ELSE IF b.nbasis < nalpha \/ b.nbasis < nbeta
    THEN [obj |-> NoWfn, raised |-> "ElectronCountError", heap |-> h]
    ELSE [obj |-> [cls |-> "OpenShellWFN", nbasis |-> b.nbasis, norb |-> b.norb,
                   nalpha |-> nalpha, nbeta |-> nbeta,
                   alpha_expansion |-> Len(h) + 1,
                   beta_expansion |-> Len(h) + 2],
          raised |-> "none",
          heap |-> Append(Append(h, CreateExpansion(b.nbasis, b.norb, TRUE)),
                          CreateExpansion(b.nbasis, b.norb, TRUE))]

(***************************************************************************)
(* The property nel of the two variants.                                   *)
(***************************************************************************)
\* ClosedShellNel without the factor two
ClosedShellNelPairs(w) == w.nep

ClosedShellNel(w) == w.nep * 2

OpenShellNel(w) == w.nalpha + w.nbeta

Nel(w) == IF w.cls = "ClosedShellWFN" THEN ClosedShellNel(w) ELSE OpenShellNel(w)

(***************************************************************************)
(* iter_expansions of the two variants: the records yielded, in order, and *)
(* the exception that ends the iteration (if any).                         *)
(***************************************************************************)
\* ClosedShellIterExpansions with occupancy 1 under 'full'
ClosedShellIterExpansionsSingle(w, select) ==
    IF select \in {"alpha", "beta", "full"}
    THEN [yielded |-> <<<<w.expansion, w.nep, 1>>>>, raised |-> "none"]
    ELSE IF select = "spin"
    THEN [yielded |-> <<>>, raised |-> "none"]
    ELSE [yielded |-> <<>>, raised |-> "ValueError"]

ClosedShellIterExpansions(w, select) ==
    IF select = "alpha"
    THEN [yielded |-> <<<<w.expansion, w.nep, 1>>>>, raised |-> "none"]
    ELSE IF select = "beta"
    THEN [yielded |-> <<<<w.expansion, w.nep, 1>>>>, raised |-> "none"]
    ELSE IF select = "full"
    THEN [yielded |-> <<<<w.expansion, w.nep, 2>>>>, raised |-> "none"]
    ELSE IF select = "spin"
    THEN [yielded |-> <<>>, raised |-> "none"]
    ELSE [yielded |-> <<>>, raised |-> "ValueError"]

\* OpenShellIterExpansions with the beta branch yielding the alpha expansion
OpenShellIterExpansionsBetaIsAlpha(w, select) ==
    IF select = "alpha"
    THEN [yielded |-> <<<<w.alpha_expansion, w.nalpha, 1>>>>, raised |-> "none"]
    ELSE IF select = "beta"
    THEN [yielded |-> <<<<w.alpha_expansion, w.nbeta, 1>>>>, raised |-> "none"]
    ELSE IF select = "full"
    THEN [yielded |-> <<<<w.alpha_expansion, w.nalpha, 1>>,
                        <<w.beta_expansion, w.nbeta, 1>>>>, raised |-> "none"]
    ELSE IF select = "spin"
    THEN [yielded |-> <<<<w.alpha_expansion, w.nalpha, 1>>,
                        <<w.beta_expansion, w.nbeta, -1>>>>, raised |-> "none"]
    ELSE [yielded |-> <<>>, raised |-> "ValueError"]

\* OpenShellIterExpansions raising only after a first record was yielded
OpenShellIterExpansionsLateRaise(w, select) ==
    IF select = "alpha"
    THEN [yielded |-> <<<<w.alpha_expansion, w.nalpha, 1>>>>, raised |-> "none"]
    ELSE IF select = "beta"
    THEN [yielded |-> <<<<w.beta_expansion, w.nbeta, 1>>>>, raised |-> "none"]
    ELSE IF select = "full"
    THEN [yielded |-> <<<<w.alpha_expansion, w.nalpha, 1>>,
                        <<w.beta_expansion, w.nbeta, 1>>>>, raised |-> "none"]
    ELSE IF select = "spin"
    THEN [yielded |-> <<<<w.alpha_expansion, w.nalpha, 1>>,
                        <<w.beta_expansion, w.nbeta, -1>>>>, raised |-> "none"]
    ELSE [yielded |-> <<<<w.alpha_expansion, w.nalpha, 1>>>>, raised |-> "ValueError"]

\* OpenShellIterExpansions with occupancy +1 for beta under 'spin'
OpenShellIterExpansionsSpinPlus(w, select) ==
    IF select = "alpha"
    THEN [yielded |-> <<<<w.alpha_expansion, w.nalpha, 1>>>>, raised |-> "none"]
    ELSE IF select = "beta"
    THEN [yielded |-> <<<<w.beta_expansion, w.nbeta, 1>>>>, raised |-> "none"]
    ELSE IF select \in {"full", "spin"}
    THEN [yielded |-> <<<<w.alpha_expansion, w.nalpha, 1>>,
                        <<w.beta_expansion, w.nbeta, 1>>>>, raised |-> "none"]
    ELSE [yielded |-> <<>>, raised |-> "ValueError"]

OpenShellIterExpansions(w, select) ==
    IF select = "alpha"
    THEN [yielded |-> <<<<w.alpha_expansion, w.nalpha, 1>>>>, raised |-> "none"]
    ELSE IF select = "beta"
    THEN [yielded |-> <<<<w.beta_expansion, w.nbeta, 1>>>>, raised |-> "none"]
    ELSE IF select = "full"
    THEN [yielded |-> <<<<w.alpha_expansion, w.nalpha, 1>>,
                        <<w.beta_expansion, w.nbeta, 1>>>>, raised |-> "none"]
    ELSE IF select = "spin"
    THEN [yielded |-> <<<<w.alpha_expansion, w.nalpha, 1>>,
                        <<w.beta_expansion, w.nbeta, -1>>>>, raised |-> "none"]
    ELSE [yielded |-> <<>>, raised |-> "ValueError"]

IterExpansions(w, select) ==
    IF w.cls = "ClosedShellWFN" THEN ClosedShellIterExpansions(w, select)
    ELSE OpenShellIterExpansions(w, select)

(***************************************************************************)
(* BaseWFN.compute_density_matrix: the target after the call.              *)
(***************************************************************************)
RECURSIVE Accumulate(_, _, _)
\* the body of the for loop, over the yielded records in order
Accumulate(h, triples, target) ==
    IF triples = <<>> THEN target
    ELSE LET t == Head(triples) IN
         Accumulate(h, Tail(triples),
                    ExpansionComputeDensityMatrix(h[t[1]], t[2], target, t[3]))

\* ComputeDensityMatrix testing the selection before it resets the target
ComputeDensityMatrixCheckFirst(w, h, target, select) ==
    IF IterExpansions(w, select).raised # "none" THEN target
    ELSE Accumulate(h, IterExpansions(w, select).yielded, Reset(target))

\* ComputeDensityMatrix without the call dm.reset()
ComputeDensityMatrixNoReset(w, h, target, select) ==
    Accumulate(h, IterExpansions(w, select).yielded, target)

ComputeDensityMatrix(w, h, target, select) ==
    Accumulate(h, IterExpansions(w, select).yielded, Reset(target))

(***************************************************************************)
(* BaseWFN.apply_basis_permutation, check_normalization and log.           *)
(***************************************************************************)
\* expansion.apply_basis_permutation(permutation): row i becomes the former
\* row permutation[i]
ExpansionApplyBasisPermutation(e, permutation) ==
    [e EXCEPT !.coeffs = [p \in DOMAIN e.coeffs |->
                             e.coeffs[<<permutation[p[1]], p[2]>>]]]

RECURSIVE PermuteEach(_, _, _)
\* the body of the for loop, over the yielded records in order
PermuteEach(h, triples, permutation) ==
    IF triples = <<>> THEN h
    ELSE LET t == Head(triples) IN
         PermuteEach([h EXCEPT ![t[1]] =
                         ExpansionApplyBasisPermutation(@, permutation)],
                     Tail(triples), permutation)

\* ApplyBasisPermutation going through the 'alpha' and then the 'beta' records
ApplyBasisPermutationPerSpin(w, h, permutation) ==
    PermuteEach(h, IterExpansions(w, "alpha").yielded
                       \o IterExpansions(w, "beta").yielded, permutation)

\* wfn.apply_basis_permutation(permutation): iter_expansions() is called
\* without argument, so with select = 'full'; the heap after the call
ApplyBasisPermutation(w, h, permutation) ==
    PermuteEach(h, IterExpansions(w, "full").yielded, permutation)

\* expansion.check_normalization(olp, nocc, eps): whether the first nocc
\* orbitals are orthonormal under the overlap operator
ExpansionIsNormalized(e, olp, nocc) ==
    \A i, j \in 1..Min(nocc, e.nfn) :
        LET dot == [a, b \in 1..e.nbasis |->
                        e.coeffs[<<a, i>>] * olp[<<a, b>>] * e.coeffs[<<b, j>>]]
            RECURSIVE SumB(_, _), SumA(_)
            SumB(a, b) == IF b = 0 THEN 0 ELSE dot[a, b] + SumB(a, b - 1)
            SumA(a) == IF a = 0 THEN 0 ELSE SumB(a, e.nbasis) + SumA(a - 1)
        IN SumA(e.nbasis) = (IF i = j THEN 1 ELSE 0)

\* wfn.check_normalization(olp, eps): the exception raised, if any
CheckNormalization(w, h, olp) ==
    LET y == IterExpansions(w, "full").yielded IN
    IF \A i \in 1..Len(y) : ExpansionIsNormalized(h[y[i][1]], olp, y[i][2])
    THEN "none" ELSE "NormalizationViolationError"

\* wfn.log(): the numbers written to the screen logger, the electron count
\* and then per record the label, the orbitals and the occupied orbitals
Log(w, h) ==
    LET y == IterExpansions(w, "full").yielded
        labels == <<"alpha", "beta">> IN
    <<Nel(w)>> \o [i \in 1..Len(y) |-> <<labels[i], h[y[i][1]].nfn, y[i][2]>>]

(***************************************************************************)
(* HDF5 groups: attributes and items, each a map from names to values.     *)
(***************************************************************************)
EmptyMap == [k \in {} |-> 0]

EmptyGroup == [attrs |-> EmptyMap, items |-> EmptyMap]

\* expansion.to_hdf5(grp): the sub-group holding the expansion's arrays
ExpansionToHdf5(e) == [attrs |-> EmptyMap, items |-> [coeffs |-> e.coeffs]]

\* expansion.read_from_hdf5(grp): the arrays are copied into the expansion
ExpansionReadFromHdf5(e, g) == [e EXCEPT !.coeffs = g.items.coeffs]

\* ClosedShellWFN.to_hdf5(grp), on a newly created group
ClosedShellToHdf5(w, h, g) ==
    [g EXCEPT !.items = [nep |-> w.nep, nbasis |-> w.nbasis, norb |-> w.norb,
                         expansion |-> ExpansionToHdf5(h[w.expansion])]]

\* OpenShellWFN.to_hdf5(grp), on a newly created group
OpenShellToHdf5(w, h, g) ==
    [g EXCEPT !.items = [nalpha |-> w.nalpha, nbeta |-> w.nbeta,
                         nbasis |-> w.nbasis, norb |-> w.norb,
                         alpha_expansion |-> ExpansionToHdf5(h[w.alpha_expansion]),
                         beta_expansion |-> ExpansionToHdf5(h[w.beta_expansion])]]

ToHdf5(w, h, g) ==
    IF w.cls = "ClosedShellWFN" THEN ClosedShellToHdf5(w, h, g)
    ELSE OpenShellToHdf5(w, h, g)

\* ClosedShellWFN.from_hdf5(grp, lf): a missing item is a KeyError; an object
\* whose construction or filling fails is dropped with its expansion
ClosedShellFromHdf5(g, h) ==
    IF ~({"nep", "nbasis", "norb"} \subseteq DOMAIN g.items)
    THEN [obj |-> NoWfn, raised |-> "KeyError", heap |-> h]
    ELSE LET r == ClosedShellNew(g.items.nep, h, g.items.nbasis, <<g.items.norb>>) IN
         IF r.raised # "none" THEN r
         ELSE IF "expansion" \notin DOMAIN g.items
         THEN [obj |-> NoWfn, raised |-> "KeyError", heap |-> h]
         ELSE [r EXCEPT !.heap[r.obj.expansion] =
                   ExpansionReadFromHdf5(@, g.items.expansion)]

\* OpenShellFromHdf5 reading each expansion from the other spin's sub-group
OpenShellFromHdf5Swapped(g, h) ==
    IF ~({"nalpha", "nbeta", "nbasis", "norb"} \subseteq DOMAIN g.items)
    THEN [obj |-> NoWfn, raised |-> "KeyError", heap |-> h]
    ELSE LET r == OpenShellNew(g.items.nalpha, g.items.nbeta, h, g.items.nbasis,
                               <<g.items.norb>>) IN
         IF r.raised # "none" THEN r
         ELSE IF ~({"alpha_expansion", "beta_expansion"} \subseteq DOMAIN g.items)
         THEN [obj |-> NoWfn, raised |-> "KeyError", heap |-> h]
         ELSE [r EXCEPT !.heap[r.obj.alpha_expansion] =
                            ExpansionReadFromHdf5(@, g.items.beta_expansion),
                        !.heap[r.obj.beta_expansion] =
                            ExpansionReadFromHdf5(@, g.items.alpha_expansion)]

\* OpenShellWFN.from_hdf5(grp, lf)
OpenShellFromHdf5(g, h) ==
    IF ~({"nalpha", "nbeta", "nbasis", "norb"} \subseteq DOMAIN g.items)
    THEN [obj |-> NoWfn, raised |-> "KeyError", heap |-> h]
    ELSE LET r == OpenShellNew(g.items.nalpha, g.items.nbeta, h, g.items.nbasis,
                               <<g.items.norb>>) IN
         IF r.raised # "none" THEN r
         ELSE IF ~({"alpha_expansion", "beta_expansion"} \subseteq DOMAIN g.items)
         THEN [obj |-> NoWfn, raised |-> "KeyError", heap |-> h]
         ELSE [r EXCEPT !.heap[r.obj.alpha_expansion] =
                            ExpansionReadFromHdf5(@, g.items.alpha_expansion),
                        !.heap[r.obj.beta_expansion] =
                            ExpansionReadFromHdf5(@, g.items.beta_expansion)]

\* BaseFromHdf5 falling back to the closed-shell variant for an unknown class
BaseFromHdf5Fallback(g, h) ==
    IF "class" \notin DOMAIN g.attrs
    THEN [obj |-> NoWfn, raised |-> "KeyError", heap |-> h]
    ELSE IF g.attrs["class"] = "OpenShellWFN" THEN OpenShellFromHdf5(g, h)
    ELSE ClosedShellFromHdf5(g, h)

\* BaseWFN.from_hdf5(grp, lf): the dispatch on the attribute 'class'
BaseFromHdf5(g, h) ==
    IF "class" \notin DOMAIN g.attrs
    THEN [obj |-> NoWfn, raised |-> "KeyError", heap |-> h]
    ELSE LET clsname == g.attrs["class"] IN
         IF clsname = "ClosedShellWFN" THEN ClosedShellFromHdf5(g, h)
         ELSE IF clsname = "OpenShellWFN" THEN OpenShellFromHdf5(g, h)
         ELSE [obj |-> NoWfn, raised |-> "TypeError", heap |-> h]

(***************************************************************************)
(* State machine.                                                          *)
(***************************************************************************)
Init ==
    /\ wfn = NoWfn
    /\ heap = <<>>
    /\ dm = Matrix(0, 0, 0)
    /\ grp = EmptyGroup
    /\ saved = NoWfn
    /\ op = NoOp
    /\ err = "none"
    /\ ret = <<>>
    /\ ctor = NoCtor
    /\ fuel = <<>>

Fresh == wfn = NoWfn /\ op = NoOp

\* one more call of the driver: in a run of bounded length it is counted
Tick ==
    /\ fuel # <<0>>
    /\ fuel' = IF fuel = <<>> THEN fuel ELSE <<fuel[1] - 1>>

Alive == wfn # NoWfn

\* ClosedShellWFN(nep, lf, nbasis, norb)
NewClosedShell ==
    /\ Fresh
    /\ \E nep \in CountArgs, nbasis \in NbasisArgs, norb \in NorbArgs :
        LET r == ClosedShellNew(nep, heap, nbasis, norb) IN
        /\ wfn' = r.obj
        /\ heap' = r.heap
        /\ err' = r.raised
        /\ ctor' = [cls |-> "ClosedShellWFN", nep |-> nep, nbasis |-> nbasis,
                    norb |-> norb]
        /\ op' = [name |-> "ClosedShellWFN"]
    /\ UNCHANGED <<dm, grp, saved, ret, fuel>>

\* OpenShellWFN(nalpha, nbeta, lf, nbasis, norb)
NewOpenShell ==
    /\ Fresh
    /\ \E nalpha \in CountArgs, nbeta \in CountArgs,
          nbasis \in NbasisArgs, norb \in NorbArgs :
        LET r == OpenShellNew(nalpha, nbeta, heap, nbasis, norb) IN
        /\ wfn' = r.obj
        /\ heap' = r.heap
        /\ err' = r.raised
        /\ ctor' = [cls |-> "OpenShellWFN", nalpha |-> nalpha, nbeta |-> nbeta,
                    nbasis |-> nbasis, norb |-> norb]
        /\ op' = [name |-> "OpenShellWFN"]
    /\ UNCHANGED <<dm, grp, saved, ret, fuel>>

\* wfn.nel
GetNel ==
    /\ Alive
    /\ Tick
    /\ ret' = <<Nel(wfn)>>
    /\ err' = "none"
    /\ op' = [name |-> "nel"]
    /\ UNCHANGED <<wfn, heap, dm, grp, saved, ctor>>

\* list(wfn.iter_expansions(select))
CallIterExpansions ==
    /\ Alive
    /\ Tick
    /\ \E select \in Selects :
        LET r == IterExpansions(wfn, select) IN
        /\ ret' = r.yielded
        /\ err' = r.raised
        /\ op' = [name |-> "iter_expansions", select |-> select]
    /\ UNCHANGED <<wfn, heap, dm, grp, saved, ctor>>

\* the operators a caller may hand over as the output argument
Targets ==
    {Matrix(wfn.nbasis, wfn.nbasis, v) : v \in TargetFill}
        \cup (IF DOMAIN dm = (1..wfn.nbasis) \X (1..wfn.nbasis) THEN {dm} ELSE {})

\* wfn.compute_density_matrix(dm, select)
CallComputeDensityMatrix ==
    /\ Alive
    /\ Tick
    /\ \E select \in Selects, target \in Targets :
        /\ dm' = ComputeDensityMatrix(wfn, heap, target, select)
        /\ err' = IterExpansions(wfn, select).raised
        /\ op' = [name |-> "compute_density_matrix", select |-> select,
                  dirty |-> (\E p \in DOMAIN target : target[p] # 0)]
    /\ ret' = <<>>
    /\ UNCHANGED <<wfn, heap, grp, saved, ctor>>

\* the expansions a wavefunction owns
Owned(w) ==
    IF w.cls = "ClosedShellWFN" THEN {w.expansion}
    ELSE IF w.cls = "OpenShellWFN" THEN {w.alpha_expansion, w.beta_expansion}
    ELSE {}

\* coefficient array number s of an n x m expansion, entries in -1..1
Pattern(s, n, m) == [p \in (1..n) \X (1..m) |-> ((p[1] * s + p[2]) % 3) - 1]

\* the SCF solver overwrites the coefficients of an owned expansion in place
SolverUpdate ==
    /\ Alive
    /\ Tick
    /\ \E e \in Owned(wfn), s \in Patterns :
        heap' = [heap EXCEPT ![e].coeffs = Pattern(s, heap[e].nbasis, heap[e].nfn)]
    /\ op' = [name |-> "solver"]
    /\ err' = "none"
    /\ ret' = <<>>
    /\ UNCHANGED <<wfn, dm, grp, saved, ctor>>

\* the permutations of the basis functions a caller passes: the rotation by
\* one place and the reversal
BasisPermutations(n) ==
    {[i \in 1..n |-> (i % n) + 1], [i \in 1..n |-> n + 1 - i]}

\* wfn.apply_basis_permutation(permutation)
CallApplyBasisPermutation ==
    /\ Alive
    /\ Tick
    /\ \E permutation \in BasisPermutations(wfn.nbasis) :
        /\ heap' = ApplyBasisPermutation(wfn, heap, permutation)
        /\ op' = [name |-> "apply_basis_permutation", permutation |-> permutation]
    /\ err' = "none"
    /\ ret' = <<>>
    /\ UNCHANGED <<wfn, dm, grp, saved, ctor>>

\* the overlap operator of an orthonormal basis
Overlap(n) == [p \in (1..n) \X (1..n) |-> IF p[1] = p[2] THEN 1 ELSE 0]

\* a check_normalization that would clear the coefficients of the expansions
\* it finds not normalized instead of only reporting them
CallCheckNormalizationClearing ==
    /\ Alive
    /\ Tick
    /\ err' = CheckNormalization(wfn, heap, Overlap(wfn.nbasis))
    /\ heap' = IF err' = "none" THEN heap
               ELSE [e \in 1..Len(heap) |->
                        [heap[e] EXCEPT !.coeffs = Matrix(heap[e].nbasis, heap[e].nfn, 0)]]
    /\ op' = [name |-> "check_normalization"]
    /\ ret' = <<>>
    /\ UNCHANGED <<wfn, dm, grp, saved, ctor>>

\* wfn.check_normalization(olp)
CallCheckNormalization ==
    /\ Alive
    /\ Tick
    /\ err' = CheckNormalization(wfn, heap, Overlap(wfn.nbasis))
    /\ op' = [name |-> "check_normalization"]
    /\ ret' = <<>>
    /\ UNCHANGED <<wfn, heap, dm, grp, saved, ctor>>

\* wfn.log()
CallLog ==
    /\ Alive
    /\ Tick
    /\ ret' = Log(wfn, heap)
    /\ err' = "none"
    /\ op' = [name |-> "log"]
    /\ UNCHANGED <<wfn, heap, dm, grp, saved, ctor>>

\* wfn.to_hdf5(grp) on a newly created group
CallToHdf5 ==
    /\ Alive
    /\ Tick
    /\ grp' = ToHdf5(wfn, heap, EmptyGroup)
    /\ saved' = [w |-> wfn, contents |-> heap]
    /\ op' = [name |-> "to_hdf5"]
    /\ err' = "none"
    /\ ret' = <<>>
    /\ UNCHANGED <<wfn, heap, dm, ctor>>

\* the writer of the file sets grp.attrs['class']
TagGroup ==
    /\ Alive
    /\ Tick
    /\ saved # NoWfn
    /\ \E c \in ClassTags : grp' = [grp EXCEPT !.attrs = ("class" :> c) @@ @]
    /\ op' = [name |-> "tag"]
    /\ err' = "none"
    /\ ret' = <<>>
    /\ UNCHANGED <<wfn, heap, dm, saved, ctor>>

\* the constructor call that from_hdf5 made for the object it returned
CtorOf(w) ==
    IF w.cls = "ClosedShellWFN"
    THEN [cls |-> w.cls, nep |-> w.nep, nbasis |-> w.nbasis, norb |-> <<w.norb>>]
    ELSE [cls |-> w.cls, nalpha |-> w.nalpha, nbeta |-> w.nbeta,
          nbasis |-> w.nbasis, norb |-> <<w.norb>>]

\* the common part of the three reading calls: the driver replaces its
\* wavefunction by the object read back (the old object and its expansions
\* are reclaimed); when the call raises, nothing is replaced
Load(r, name) ==
    /\ wfn' = IF r.raised = "none" THEN r.obj ELSE wfn
    /\ heap' = IF r.raised = "none" THEN r.heap ELSE heap
    /\ ctor' = IF r.raised = "none" THEN CtorOf(r.obj) ELSE ctor
    /\ err' = r.raised
    /\ op' = [name |-> name]
    /\ ret' = IF r.raised = "none" THEN <<r.obj>> ELSE <<>>
    /\ UNCHANGED <<dm, grp, saved>>

\* ClosedShellWFN.from_hdf5(grp, lf)
CallClosedShellFromHdf5 ==
    /\ Alive
    /\ Tick
    /\ Load(ClosedShellFromHdf5(grp, <<>>), "ClosedShellWFN.from_hdf5")

\* OpenShellWFN.from_hdf5(grp, lf)
CallOpenShellFromHdf5 ==
    /\ Alive
    /\ Tick
    /\ Load(OpenShellFromHdf5(grp, <<>>), "OpenShellWFN.from_hdf5")

\* BaseWFN.from_hdf5(grp, lf)
CallBaseFromHdf5 ==
    /\ Alive
    /\ Tick
    /\ Load(BaseFromHdf5(grp, <<>>), "BaseWFN.from_hdf5")

Next ==
    \/ NewClosedShell
    \/ NewOpenShell
    \/ GetNel
    \/ CallIterExpansions
    \/ CallComputeDensityMatrix
    \/ SolverUpdate

\* a calculation: construction, SCF updates, selections and density matrices
Spec == Init /\ [][Next]_vars

NextHdf5 ==
    \/ NewClosedShell
    \/ NewOpenShell
    \/ SolverUpdate
    \/ CallToHdf5
    \/ TagGroup
    \/ CallClosedShellFromHdf5
    \/ CallOpenShellFromHdf5
    \/ CallBaseFromHdf5

\* a checkpointing run: construction, SCF updates, writing and reading back
SpecHdf5 == Init /\ [][NextHdf5]_vars

NextPermutation ==
    \/ NewClosedShell
    \/ NewOpenShell
    \/ SolverUpdate
    \/ CallApplyBasisPermutation
    \/ CallCheckNormalization
    \/ CallLog

\* a calculation whose basis is reordered: construction, SCF updates,
\* permutations, normalization tests and summaries
SpecPermutation == Init /\ [][NextPermutation]_vars

\* the state before any wavefunction is constructed, in a run of at most
\* MaxCalls calls after the construction
InitBounded ==
    /\ wfn = NoWfn
    /\ heap = <<>>
    /\ dm = Matrix(0, 0, 0)
    /\ grp = EmptyGroup
    /\ saved = NoWfn
    /\ op = NoOp
    /\ err = "none"
    /\ ret = <<>>
    /\ ctor = NoCtor
    /\ fuel = <<MaxCalls>>

NextFrame ==
    \/ NewClosedShell
    \/ NewOpenShell
    \/ GetNel
    \/ CallIterExpansions
    \/ CallComputeDensityMatrix
    \/ SolverUpdate
    \/ CallApplyBasisPermutation
    \/ CallCheckNormalization
    \/ CallLog
    \/ CallToHdf5

\* every operation on a live wavefunction, interleaved with SCF updates, in
\* runs of at most MaxCalls calls after the construction
SpecFrame == InitBounded /\ [][NextFrame]_vars

(***************************************************************************)
(* Properties.                                                             *)
(***************************************************************************)
ClosedCtor == ctor.cls = "ClosedShellWFN"

OpenCtor == ctor.cls = "OpenShellWFN"

Max(a, b) == IF a > b THEN a ELSE b

Recognized == {"alpha", "beta", "full", "spin"}

\* C1: constructing a closed-shell wavefunction succeeds iff nep >= 1 and
\* nbasis >= nep; otherwise it raises ElectronCountError, no expansion has been
\* created and no object exists.
C1_ClosedShellConstruction ==
    ClosedCtor =>
        LET ok == ctor.nep >= 1 /\ ctor.nbasis >= ctor.nep IN
        /\ ok <=> wfn # NoWfn
        /\ ok => /\ wfn.cls = "ClosedShellWFN"
                 /\ wfn.expansion \in 1..Len(heap)
                 /\ (op.name = "ClosedShellWFN" => err = "none" /\ Len(heap) = 1)
        /\ ~ok => err = "ElectronCountError" /\ heap = <<>> /\ wfn = NoWfn

\* a closed-shell construction with more pairs than basis functions has failed
C1_Witness ==
    /\ ClosedCtor
    /\ ctor.nep = 2
    /\ ctor.nbasis = 1
    /\ err = "ElectronCountError"
    /\ wfn = NoWfn
    /\ heap = <<>>

\* C2: constructing an open-shell wavefunction fails with ElectronCountError
\* exactly when nalpha < 0, nbeta < 0, both are zero, or nbasis <
\* max(nalpha, nbeta); a failure creates no expansion, a success creates two
\* distinct ones, one per spin channel.
C2_OpenShellConstruction ==
    OpenCtor =>
        LET bad == \/ ctor.nalpha < 0
                   \/ ctor.nbeta < 0
                   \/ (ctor.nalpha = 0 /\ ctor.nbeta = 0)
                   \/ ctor.nbasis < Max(ctor.nalpha, ctor.nbeta) IN
        /\ bad <=> wfn = NoWfn
        /\ bad => err = "ElectronCountError" /\ heap = <<>>
        /\ ~bad => /\ wfn.cls = "OpenShellWFN"
                   /\ wfn.alpha_expansion # wfn.beta_expansion
                   /\ {wfn.alpha_expansion, wfn.beta_expansion} \subseteq 1..Len(heap)
                   /\ (op.name = "OpenShellWFN" => err = "none" /\ Len(heap) = 2)

\* an open-shell wavefunction with no alpha electron has been constructed
C2_Witness ==
    /\ OpenCtor
    /\ op.name = "OpenShellWFN"
    /\ ctor.nalpha = 0
    /\ ctor.nbeta = 1
    /\ wfn.cls = "OpenShellWFN"
    /\ Len(heap) = 2
    /\ wfn.alpha_expansion # wfn.beta_expansion

\* the electron count the constructor arguments stand for
ExpectedNel ==
    IF ClosedCtor THEN 2 * ctor.nep ELSE ctor.nalpha + ctor.nbeta

\* C3: for every constructed wavefunction nel is 2 * nep (closed shell) or
\* nalpha + nbeta (open shell), at construction and at every later point.
C3_ElectronCount ==
    Alive => /\ Nel(wfn) = ExpectedNel
             /\ (op.name = "nel" => ret = <<ExpectedNel>>)

\* nel has been read from an open-shell wavefunction the solver has updated
C3_Witness ==
    /\ Alive
    /\ op.name = "nel"
    /\ OpenCtor
    /\ ctor.nalpha = 2
    /\ ctor.nbeta = 1
    /\ ctor.nbasis = 3
    /\ ret = <<3>>
    /\ \E e \in Owned(wfn) : \E p \in DOMAIN heap[e].coeffs : heap[e].coeffs[p] # 0

\* C4: a closed-shell wavefunction yields the one record (expansion, nep, 1)
\* for 'alpha' and for 'beta', the one record (expansion, nep, 2) for 'full'
\* and nothing for 'spin'; every record carries the single owned expansion.
C4_ClosedShellSelection ==
    (Alive /\ ClosedCtor /\ op.name = "iter_expansions" /\ op.select \in Recognized) =>
        /\ err = "none"
        /\ Owned(wfn) = {wfn.expansion}
        /\ op.select \in {"alpha", "beta"} => ret = <<<<wfn.expansion, ctor.nep, 1>>>>
        /\ op.select = "full" => ret = <<<<wfn.expansion, ctor.nep, 2>>>>
        /\ op.select = "spin" => ret = <<>>

\* 'full' on the closed-shell wavefunction with one pair in two basis functions
C4_Witness ==
    /\ Alive
    /\ ClosedCtor
    /\ ctor.nep = 1
    /\ ctor.nbasis = 2
    /\ op.name = "iter_expansions"
    /\ op.select = "full"
    /\ Len(ret) = 1
    /\ ret[1][3] = 2

\* C5: an open-shell wavefunction yields (alpha expansion, nalpha, 1) for
\* 'alpha', (beta expansion, nbeta, 1) for 'beta', both in that order for
\* 'full', and the same two with occupancies +1 and -1 for 'spin'.
C5_OpenShellSelection ==
    (Alive /\ OpenCtor /\ op.name = "iter_expansions" /\ op.select \in Recognized) =>
        LET a == wfn.alpha_expansion
            b == wfn.beta_expansion IN
        /\ err = "none"
        /\ a # b
        /\ op.select = "alpha" => ret = <<<<a, ctor.nalpha, 1>>>>
        /\ op.select = "beta" => ret = <<<<b, ctor.nbeta, 1>>>>
        /\ op.select = "full" => ret = <<<<a, ctor.nalpha, 1>>, <<b, ctor.nbeta, 1>>>>
        /\ op.select = "spin" => ret = <<<<a, ctor.nalpha, 1>>, <<b, ctor.nbeta, -1>>>>

\* 'spin' on an open-shell wavefunction with two alpha and one beta electron
C5_Witness ==
    /\ Alive
    /\ OpenCtor
    /\ ctor.nalpha = 2
    /\ ctor.nbeta = 1
    /\ ctor.nbasis = 3
    /\ op.name = "iter_expansions"
    /\ op.select = "spin"
    /\ Len(ret) = 2
    /\ ret[1][3] = 1
    /\ ret[2][3] = -1

\* C6: for both variants a selection other than alpha, beta, full and spin
\* raises the invalid-selection error and no record is yielded before it.
C6_InvalidSelection ==
    (Alive /\ op.name = "iter_expansions" /\ op.select \notin Recognized) =>
        err = "ValueError" /\ ret = <<>>

\* an unrecognized selection on an open-shell wavefunction has raised
C6_Witness ==
    /\ Alive
    /\ OpenCtor
    /\ op.name = "iter_expansions"
    /\ op.select = "gamma"
    /\ err = "ValueError"

Scale(k, m) == [p \in DOMAIN m |-> k * m[p]]

Plus(a, b) == [p \in DOMAIN a |-> a[p] + b[p]]

Minus(a, b) == [p \in DOMAIN a |-> a[p] - b[p]]

NonZero(m) == \E p \in DOMAIN m : m[p] # 0

\* the density matrix of the current expansions for a selection, computed
\* into an operator that held other data
DensityOf(select) ==
    ComputeDensityMatrix(wfn, heap, Matrix(wfn.nbasis, wfn.nbasis, 7), select)

DensityComputed ==
    Alive /\ op.name = "compute_density_matrix" /\ op.select \in Recognized

\* C7: closed shell: the density matrix for 'full' is exactly twice the one
\* for 'alpha', which equals the one for 'beta'; for 'spin' the target is left
\* as the zero matrix whatever it held before.
C7_ClosedShellDensity ==
    (DensityComputed /\ ClosedCtor) =>
        /\ err = "none"
        /\ DensityOf("alpha") = DensityOf("beta")
        /\ op.select = "full" => dm = Scale(2, DensityOf("alpha"))
        /\ op.select \in {"alpha", "beta"} =>
               dm = DensityOf("alpha") /\ Scale(2, dm) = DensityOf("full")
        /\ op.select = "spin" => dm = Matrix(wfn.nbasis, wfn.nbasis, 0)

\* a non-zero closed-shell 'full' density matrix was computed into a target
\* that held other data
C7_Witness ==
    /\ DensityComputed
    /\ ClosedCtor
    /\ op.select = "full"
    /\ op.dirty
    /\ NonZero(dm)

\* C8: open shell: the density matrix for 'spin' is the one for 'alpha' minus
\* the one for 'beta', and the one for 'full' is their sum.
C8_OpenShellDensity ==
    (DensityComputed /\ OpenCtor) =>
        /\ err = "none"
        /\ op.select = "spin" => dm = Minus(DensityOf("alpha"), DensityOf("beta"))
        /\ op.select = "full" => dm = Plus(DensityOf("alpha"), DensityOf("beta"))
        /\ op.select = "alpha" => Plus(dm, DensityOf("beta")) = DensityOf("full")
        /\ op.select = "beta" => Minus(DensityOf("alpha"), dm) = DensityOf("spin")

\* an open-shell spin density matrix was computed from two non-zero, different
\* spin channels
C8_Witness ==
    /\ DensityComputed
    /\ OpenCtor
    /\ op.select = "spin"
    /\ op.dirty
    /\ NonZero(dm)
    /\ NonZero(DensityOf("alpha"))
    /\ NonZero(DensityOf("beta"))

\* the wavefunction has the fields and the expansion contents that were
\* written
SameAsSaved ==
    /\ wfn.cls = saved.w.cls
    /\ wfn.nbasis = saved.w.nbasis
    /\ wfn.norb = saved.w.norb
    /\ Owned(wfn) \subseteq 1..Len(heap)
    /\ IF saved.w.cls = "ClosedShellWFN"
       THEN /\ wfn.nep = saved.w.nep
            /\ heap[wfn.expansion] = saved.contents[saved.w.expansion]
       ELSE /\ wfn.nalpha = saved.w.nalpha
            /\ wfn.nbeta = saved.w.nbeta
            /\ wfn.alpha_expansion # wfn.beta_expansion
            /\ heap[wfn.alpha_expansion] = saved.contents[saved.w.alpha_expansion]
            /\ heap[wfn.beta_expansion] = saved.contents[saved.w.beta_expansion]

\* C9: to_hdf5 followed by the same variant's from_hdf5 gives an object with
\* identical nbasis, norb, electron counts and expansion contents, alpha and
\* beta not swapped.
C9_RoundTrip ==
    (saved # NoWfn /\ op.name = saved.w.cls \o ".from_hdf5") =>
        err = "none" /\ SameAsSaved

\* an open-shell wavefunction with different alpha and beta coefficients was
\* written and read back
C9_Witness ==
    /\ saved # NoWfn
    /\ op.name = "OpenShellWFN.from_hdf5"
    /\ err = "none"
    /\ saved.w.cls = "OpenShellWFN"
    /\ NonZero(saved.contents[saved.w.alpha_expansion].coeffs)
    /\ NonZero(saved.contents[saved.w.beta_expansion].coeffs)
    /\ saved.contents[saved.w.alpha_expansion] # saved.contents[saved.w.beta_expansion]
    /\ SameAsSaved

\* C10: the group written by to_hdf5 carries the variant's discriminant, so
\* that BaseWFN.from_hdf5 applied to a group produced by to_hdf5 alone
\* reconstructs an object of the same variant.
C10_WrittenGroupDispatches ==
    (saved # NoWfn /\ grp = ToHdf5(saved.w, saved.contents, EmptyGroup)
        /\ op.name = "BaseWFN.from_hdf5") =>
        err = "none" /\ wfn.cls = saved.w.cls

\* BaseWFN.from_hdf5 was called on a group that carries the attribute 'class'
Dispatched ==
    /\ saved # NoWfn
    /\ op.name = "BaseWFN.from_hdf5"
    /\ "class" \in DOMAIN grp.attrs

\* C11: BaseWFN.from_hdf5 builds a closed-shell object when the discriminant
\* names ClosedShellWFN and an open-shell object when it names OpenShellWFN;
\* for any other discriminant it raises the unrecognized-type error and
\* returns no object.
C11_Dispatch ==
    Dispatched =>
        LET clsname == grp.attrs["class"] IN
        /\ clsname \in {"ClosedShellWFN", "OpenShellWFN"} =>
               /\ err = "none" => (Len(ret) = 1 /\ ret[1].cls = clsname /\ wfn = ret[1])
               /\ saved.w.cls = clsname => (err = "none" /\ SameAsSaved)
        /\ clsname \notin {"ClosedShellWFN", "OpenShellWFN"} =>
               err = "TypeError" /\ ret = <<>>

\* a group written by an open-shell wavefunction and tagged with an unknown
\* class was dispatched
C11_Witness ==
    /\ Dispatched
    /\ grp.attrs["class"] = "BaseWFN"
    /\ saved.w.cls = "OpenShellWFN"
    /\ err = "TypeError"
    /\ ret = <<>>

\* C12: every constructed wavefunction has nbasis > 0 and norb at least the
\* number of occupied orbitals of every record iter_expansions can yield; norb
\* is nbasis when not given and the given value otherwise.
C12_OrbitalCount ==
    Alive =>
        /\ wfn.nbasis > 0
        /\ wfn.norb = (IF ctor.norb = <<>> THEN ctor.nbasis ELSE ctor.norb[1])
        /\ \A select \in Recognized :
               LET y == IterExpansions(wfn, select).yielded IN
               \A i \in 1..Len(y) : wfn.norb >= y[i][2]

\* the density matrix that the records of a selection give on a zero target
FromZero(select) ==
    Accumulate(heap, IterExpansions(wfn, select).yielded,
               Matrix(wfn.nbasis, wfn.nbasis, 0))

\* C14: compute_density_matrix with a recognized selection gives the sum of
\* scale times the expansion's density contribution over the yielded records,
\* whatever the target held before; a second call in a row with the same
\* selection leaves the target as the first call left it.
C14_DensityFromZero ==
    /\ [](DensityComputed => (err = "none" /\ dm = FromZero(op.select)))
    /\ [][(DensityComputed /\ op'.name = "compute_density_matrix"
              /\ op'.select = op.select) => dm' = dm]_vars

\* an open-shell 'full' density matrix, not zero, was computed into a target
\* that held other data
C14_Witness ==
    /\ DensityComputed
    /\ OpenCtor
    /\ op.select = "full"
    /\ op.dirty
    /\ NonZero(dm)
    /\ dm # Matrix(wfn.nbasis, wfn.nbasis, 7)

\* C16: compute_density_matrix with an unrecognized selection raises the
\* invalid-selection error after the target was reset: the target is the zero
\* matrix, whatever it held, and nothing was accumulated into it.
C16_InvalidSelectionResets ==
    (Alive /\ op.name = "compute_density_matrix" /\ op.select \notin Recognized) =>
        /\ err = "ValueError"
        /\ dm = Matrix(wfn.nbasis, wfn.nbasis, 0)

\* an unrecognized selection was given with a target that held other data,
\* for expansions that are not zero
C16_Witness ==
    /\ Alive
    /\ op.name = "compute_density_matrix"
    /\ op.select = "gamma"
    /\ op.dirty
    /\ err = "ValueError"
    /\ NonZero(FromZero("full"))
    /\ dm = Matrix(wfn.nbasis, wfn.nbasis, 0)

\* C13: apply_basis_permutation applies the permutation exactly once to each
\* expansion the wavefunction owns (once to the single expansion of a closed
\* shell, once to each of alpha and beta of an open shell) and changes nothing
\* else: not the fields, not the density matrix, not a group.
C13_PermutationOnce ==
    [][(Alive /\ op'.name = "apply_basis_permutation") =>
          /\ Len(heap') = Len(heap)
          /\ \A e \in 1..Len(heap) :
                 heap'[e] = IF e \in Owned(wfn)
                            THEN ExpansionApplyBasisPermutation(heap[e], op'.permutation)
                            ELSE heap[e]
          /\ err' = "none"
          /\ UNCHANGED <<wfn, dm, grp, saved, ctor>>]_vars

\* the coefficients of a closed-shell expansion are a solver's array permuted
\* once, which is neither that array nor that array permuted twice
C13_Witness ==
    /\ Alive
    /\ ClosedCtor
    /\ op.name = "apply_basis_permutation"
    /\ \E s \in Patterns :
           LET e == [heap[wfn.expansion] EXCEPT
                        !.coeffs = Pattern(s, wfn.nbasis, wfn.norb)]
               once == ExpansionApplyBasisPermutation(e, op.permutation)
               twice == ExpansionApplyBasisPermutation(once, op.permutation)
           IN  /\ heap[wfn.expansion] = once
               /\ once # e
               /\ once # twice

\* the calls on a live wavefunction the frame property speaks of, and the
\* solver's update
FrameOps ==
    {"nel", "iter_expansions", "compute_density_matrix", "check_normalization",
     "apply_basis_permutation", "log", "to_hdf5", "solver"}

\* the fields are the constructor's, and the wavefunction owns the expansions
\* its constructor created, of the shape it created them with
AsConstructed ==
    /\ wfn.cls = ctor.cls
    /\ wfn.nbasis = ctor.nbasis
    /\ wfn.norb = (IF ctor.norb = <<>> THEN ctor.nbasis ELSE ctor.norb[1])
    /\ IF wfn.cls = "ClosedShellWFN"
       THEN wfn.nep = ctor.nep /\ wfn.expansion = 1 /\ Len(heap) = 1
       ELSE /\ wfn.nalpha = ctor.nalpha
            /\ wfn.nbeta = ctor.nbeta
            /\ wfn.alpha_expansion = 1
            /\ wfn.beta_expansion = 2
            /\ Len(heap) = 2
    /\ \A e \in Owned(wfn) :
           /\ heap[e].nbasis = wfn.nbasis
           /\ heap[e].nfn = wfn.norb
           /\ DOMAIN heap[e].coeffs = (1..wfn.nbasis) \X (1..wfn.norb)

\* C15: after any sequence of nel, iter_expansions, compute_density_matrix,
\* check_normalization, apply_basis_permutation, log and to_hdf5 calls,
\* interleaved with solver updates, the wavefunction has the fields it was
\* constructed with and owns the same expansions; of these calls only
\* apply_basis_permutation changes the contents of an expansion and only
\* compute_density_matrix changes its target.
C15_Frame ==
    /\ [](Alive => AsConstructed)
    /\ [][(Alive /\ op'.name \in FrameOps) =>
              /\ wfn' = wfn
              /\ Len(heap') = Len(heap)
              /\ op'.name \notin {"apply_basis_permutation", "solver"} => heap' = heap
              /\ op'.name # "compute_density_matrix" => dm' = dm]_vars

\* three calls after the construction of an open shell: the solver wrote
\* coefficients, a density matrix was computed, and the permutation that was
\* applied last left that matrix and the fields as they were
C15_Witness ==
    /\ Alive
    /\ OpenCtor
    /\ fuel = <<0>>
    /\ op.name = "apply_basis_permutation"
    /\ AsConstructed
    /\ NonZero(dm)
    /\ \E e \in Owned(wfn) : NonZero(heap[e].coeffs)

====
